---- MODULE Spec2Model ----
(***************************************************************************)
(* Model of orion.core.io.experiment_branch_builder: the conflicts between *)
(* a parent experiment space and a branching child's space, and the        *)
(* resolution API (add / remove / rename / reset) over them.               *)
(*                                                                         *)
(* Specifications: SpecConstruct (the spaces, then _find_conflicts),       *)
(* SpecCommandline (the whole of __init__ from the raw arguments), Spec    *)
(* (the four resolution calls, one at a time), SpecAll (those and          *)
(* change_experiment_name, create_adaptors), SpecRace (add_dimension and   *)
(* reset_dimension of one name interleaved).                               *)
(*                                                                         *)
(* Strings are sequences of one-character strings, so that split(' '),     *)
(* startswith, '*' in arg and name[1:] are computed as Python computes     *)
(* them.  A Conflict object is identified by its position in               *)
(* self.conflicts (the list is never reordered after construction), which  *)
(* is what Python's identity-based == / in on Conflict objects compares.   *)
(***************************************************************************)
EXTENDS Integers, Sequences, FiniteSets, TLC

VARIABLES experiment_config, conflicting_config, commandline_keywords,
          experiment_space, conflicting_space, conflicts, operations,
          returned, last, calls, overlapped

vars == <<experiment_config, conflicting_config, commandline_keywords,
          experiment_space, conflicting_space, conflicts, operations,
          returned, last, calls, overlapped>>

\* what a call of the resolution API never writes
fixed == <<experiment_config, conflicting_config, commandline_keywords,
           experiment_space, conflicting_space, calls, overlapped>>

----------------------------------------------------------------------------
(* Bounds *)

\* the elements of a sequence
Range(s) == {s[i] : i \in DOMAIN s}

\* number of distinct declarations (prior/shape) a dimension can have
MaxDecl == 2

Decls == 1..MaxDecl

\* the dimension names the two spaces draw from, in the order the spaces
\* list them; two share the namespace prefix "m"
NamePool == << <<"/", "m", "a">>, <<"/", "m", "b">>, <<"/", "x">> >>

DimNames == Range(NamePool)

----------------------------------------------------------------------------
(* Sequence helpers *)

\* list.remove(value): drops the first element equal to value
ListRemove(s, value) ==
    LET first == CHOOSE i \in DOMAIN s : s[i] = value /\ \A j \in 1..(i-1) : s[j] # value
    IN  SubSeq(s, 1, first - 1) \o SubSeq(s, first + 1, Len(s))

\* str.startswith(prefix)
StartsWith(s, prefix) ==
    Len(prefix) <= Len(s) /\ SubSeq(s, 1, Len(prefix)) = prefix

\* ch in str, for a one-character ch
HasChar(s, ch) == \E i \in DOMAIN s : s[i] = ch

RECURSIVE SplitFrom(_, _, _, _, _)
SplitFrom(s, sep, i, cur, acc) ==
    IF i > Len(s) THEN Append(acc, cur)
    ELSE IF s[i] = sep THEN SplitFrom(s, sep, i + 1, <<>>, Append(acc, cur))
    ELSE SplitFrom(s, sep, i + 1, Append(cur, s[i]), acc)

\* str.split(sep), for a one-character sep
Split(s, sep) == SplitFrom(s, sep, 1, <<>>, <<>>)

----------------------------------------------------------------------------
(* Spaces and dimensions (external collaborators) *)

\* Dimension.__eq__: same name and same declaration
DimEq(d1, d2) == d1.name = d2.name /\ d1.decl = d2.decl

\* name in space
SpaceHasName(space, name) == \E i \in DOMAIN space : space[i].name = name

\* SpaceBuilder().build_from: a space over the names of `present`, in pool
\* order, declared by `decl`
RECURSIVE BuildFrom(_, _, _)
BuildFrom(present, decl, i) ==
    IF i > Len(NamePool) THEN <<>>
    ELSE (IF NamePool[i] \in present
             THEN << [name |-> NamePool[i], decl |-> decl[NamePool[i]]] >>
             ELSE <<>>) \o BuildFrom(present, decl, i + 1)

\* the spaces whose dimensions are declared with declarations of `decls`
Spaces(decls) ==
    {BuildFrom(present, decl, 1) : present \in SUBSET DimNames, decl \in [DimNames -> decls]}

----------------------------------------------------------------------------
(* Conflict detection *)

Conflict(status, dimension) ==
    [is_solved |-> FALSE, dimension |-> dimension, status |-> status]

RECURSIVE FindCandidateLoop(_, _, _)
FindCandidateLoop(parent, candidate, i) ==
    IF i > Len(candidate) THEN <<>>
    ELSE LET dim == candidate[i]
             here == IF SpaceHasName(parent, dim.name)
                        THEN IF \A k \in DOMAIN parent : ~DimEq(dim, parent[k])
                                THEN << Conflict("changed", dim) >>
                                ELSE <<>>
                        ELSE << Conflict("new", dim) >>
         IN  here \o FindCandidateLoop(parent, candidate, i + 1)

RECURSIVE FindParentLoop(_, _, _)
FindParentLoop(parent, candidate, i) ==
    IF i > Len(parent) THEN <<>>
    ELSE LET dim == parent[i]
             here == IF ~SpaceHasName(candidate, dim.name)
                        THEN << Conflict("missing", dim) >>
                        ELSE <<>>
         IN  here \o FindParentLoop(parent, candidate, i + 1)

\* faulty variant: the second loop left out, so dimensions the child dropped
\* go undetected
FindConflicts_SkipMissing(parent, candidate) ==
    FindCandidateLoop(parent, candidate, 1)

FindConflicts(parent, candidate) ==
    FindCandidateLoop(parent, candidate, 1) \o FindParentLoop(parent, candidate, 1)

----------------------------------------------------------------------------
(* Filtering: the helpers return the positions of the selected conflicts, *)
(* in list order *)

Positions(cs) == [i \in 1..Len(cs) |-> i]

filter_conflicts_with_status(cs, status) ==
    SelectSeq(Positions(cs), LAMBDA i : cs[i].status \in status)

----------------------------------------------------------------------------
(* Name resolution *)

KwNew == <<"~", "n", "e", "w">>
KwChanged == <<"~", "c", "h", "a", "n", "g", "e", "d">>
KwMissing == <<"~", "m", "i", "s", "s", "i", "n", "g">>

\* the instruction operators of the command line
KwAdd == <<"~", "+">>
KwRemove == <<"~", "-">>
KwRename == <<"~", ">">>

special_keywords ==
    (KwNew :> "new") @@ (KwChanged :> "changed") @@ (KwMissing :> "missing")

\* dimension.name[1:] of each selected conflict
StrippedNames(cs, selected) ==
    [k \in 1..Len(selected) |-> Tail(cs[selected[k]].dimension.name)]

\* faulty variant: the keyword selects every conflict, whatever its status
ExtendSpecialKeywords_AnyStatus(cs, arg, names) ==
    names \o StrippedNames(cs, Positions(cs))

ExtendSpecialKeywords(cs, arg, names) ==
    names \o StrippedNames(cs, filter_conflicts_with_status(cs, {special_keywords[arg]}))

\* arg.split('*')[0]
WildcardPrefix(arg) == <<"/">> \o Split(arg, "*")[1]

\* faulty variant: the prefix alone selects, whatever the status
ExtendWildcard_AnyStatus(cs, arg, names, status) ==
    LET prefix == WildcardPrefix(arg)
        filtered_conflicts ==
            SelectSeq(Positions(cs),
                      LAMBDA i : StartsWith(cs[i].dimension.name, prefix))
    IN  names \o StrippedNames(cs, filtered_conflicts)

ExtendWildcard(cs, arg, names, status) ==
    LET prefix == WildcardPrefix(arg)
        filtered_conflicts ==
            SelectSeq(Positions(cs),
                      LAMBDA i : StartsWith(cs[i].dimension.name, prefix)
                                 /\ cs[i].status \in status)
    IN  names \o StrippedNames(cs, filtered_conflicts)

RECURSIVE GetNamesLoop(_, _, _, _, _)
GetNamesLoop(cs, args, i, names, status) ==
    IF i > Len(args) THEN names
    ELSE LET arg == args[i]
             next == IF arg \in DOMAIN special_keywords
                        THEN ExtendSpecialKeywords(cs, arg, names)
                     ELSE IF HasChar(arg, "*")
                        THEN ExtendWildcard(cs, arg, names, status)
                     ELSE << arg >>
         IN  GetNamesLoop(cs, args, i + 1, next, status)

GetNames(cs, name, status) ==
    GetNamesLoop(cs, Split(name, " "), 1, <<>>, status)

----------------------------------------------------------------------------
(* Marking and the operations ledger *)

\* list.index raises ValueError when the name is not found
AssertHasStatus(cs, name, status) ==
    LET prefixed_name == <<"/">> \o name
        filtered == filter_conflicts_with_status(cs, status)
        hits == {k \in DOMAIN filtered : cs[filtered[k]].dimension.name = prefixed_name}
    IN  IF hits = {}
           THEN [raised |-> "ValueError", index |-> 0, conflicts |-> filtered]
           ELSE [raised |-> "None",
                 index |-> CHOOSE k \in hits : \A j \in hits : k <= j,
                 conflicts |-> filtered]

\* faulty variant: the mark is written over the conflict's status
MarkAs_WritesStatus(cs, name, status, is_solved) ==
    LET found == AssertHasStatus(cs, name, status)
    IN  IF found.raised # "None"
           THEN [raised |-> found.raised, conflicts |-> cs, conflict |-> 0]
           ELSE LET conflict == found.conflicts[found.index]
                IN  [raised |-> "None",
                     conflicts |-> [cs EXCEPT ![conflict].is_solved = is_solved,
                                              ![conflict].status =
                                                  IF is_solved THEN "solved"
                                                               ELSE "unsolved"],
                     conflict |-> conflict]

MarkAs(cs, name, status, is_solved) ==
    LET found == AssertHasStatus(cs, name, status)
    IN  IF found.raised # "None"
           THEN [raised |-> found.raised, conflicts |-> cs, conflict |-> 0]
           ELSE LET conflict == found.conflicts[found.index]
                IN  [raised |-> "None",
                     conflicts |-> [cs EXCEPT ![conflict].is_solved = is_solved],
                     conflict |-> conflict]

MarkAsSolved(cs, name, status) == MarkAs(cs, name, status, TRUE)

\* faulty variant: appends without looking for the payload first
PutOperation_NoDedup(ops, operation_name, args) ==
    LET created == IF operation_name \notin DOMAIN ops
                      THEN ops @@ (operation_name :> <<>>)
                      ELSE ops
    IN  [created EXCEPT ![operation_name] = Append(@, args)]

\* faulty variant: the membership test is inverted, so nothing is ever queued
PutOperation_InvertedTest(ops, operation_name, args) ==
    LET created == IF operation_name \notin DOMAIN ops
                      THEN ops @@ (operation_name :> <<>>)
                      ELSE ops
    IN  IF args \in Range(created[operation_name])
           THEN [created EXCEPT ![operation_name] = Append(@, args)]
           ELSE created

PutOperation(ops, operation_name, args) ==
    LET created == IF operation_name \notin DOMAIN ops
                      THEN ops @@ (operation_name :> <<>>)
                      ELSE ops
    IN  IF args \notin Range(created[operation_name])
           THEN [created EXCEPT ![operation_name] = Append(@, args)]
           ELSE created

\* for value in self.operations['rename'], with the list shrinking under the
\* iterator: the iterator's index advances past the element that slides
\* into the removed slot
RECURSIVE RemoveRenameLoop(_, _, _, _)
RemoveRenameLoop(cs, renames, i, arg) ==
    IF i > Len(renames) THEN [conflicts |-> cs, renames |-> renames]
    ELSE LET value == renames[i]
             old == value[1]
             new == value[2]
         IN  IF arg \in Range(value)
                THEN RemoveRenameLoop(
                         [cs EXCEPT ![old].is_solved = FALSE, ![new].is_solved = FALSE],
                         ListRemove(renames, value), i + 1, arg)
                ELSE RemoveRenameLoop(cs, renames, i + 1, arg)

\* the keys of self.operations in the order the loop visits them; no branch
\* reads what another wrote, so the visiting order does not show in the result
OperationKeys(ops) ==
    SelectSeq(<<"add", "remove", "rename">>, LAMBDA k : k \in DOMAIN ops)

RECURSIVE RemoveFromOperationsLoop(_, _, _, _, _)
RemoveFromOperationsLoop(cs, ops, keys, i, arg) ==
    IF i > Len(keys) THEN [conflicts |-> cs, operations |-> ops]
    ELSE LET operation == keys[i]
         IN  IF operation = "rename"
                THEN LET r == RemoveRenameLoop(cs, ops[operation], 1, arg)
                     IN  RemoveFromOperationsLoop(
                             r.conflicts, [ops EXCEPT ![operation] = r.renames],
                             keys, i + 1, arg)
             ELSE IF arg \in Range(ops[operation])
                THEN RemoveFromOperationsLoop(
                         [cs EXCEPT ![arg].is_solved = FALSE],
                         [ops EXCEPT ![operation] = ListRemove(@, arg)],
                         keys, i + 1, arg)
             ELSE RemoveFromOperationsLoop(cs, ops, keys, i + 1, arg)

\* faulty variant: the conflicts are unmarked but their entries stay queued
RemoveFromOperations_KeepsEntries(cs, ops, arg) ==
    [conflicts |-> RemoveFromOperationsLoop(cs, ops, OperationKeys(ops), 1, arg).conflicts,
     operations |-> ops]

RemoveFromOperations(cs, ops, arg) ==
    RemoveFromOperationsLoop(cs, ops, OperationKeys(ops), 1, arg)

----------------------------------------------------------------------------
(* Resolution API, as functions of the builder's state.  Each returns the  *)
(* conflicts and operations the call leaves behind and the exception it    *)
(* raised ("None" when it returned normally): a call that raises keeps the *)
(* mutations it made before the raise.                                     *)

RECURSIVE DoBasicLoop(_, _, _, _, _, _)
DoBasicLoop(cs, ops, names, i, status, operation) ==
    IF i > Len(names) THEN [raised |-> "None", conflicts |-> cs, operations |-> ops]
    ELSE LET marked == MarkAsSolved(cs, names[i], status)
         IN  IF marked.raised # "None"
                THEN [raised |-> marked.raised, conflicts |-> cs, operations |-> ops]
                ELSE DoBasicLoop(marked.conflicts,
                                 PutOperation(ops, operation, marked.conflict),
                                 names, i + 1, status, operation)

\* faulty variant: a call that raises rolls back what it had applied
DoBasic_AllOrNothing(cs, ops, name, status, operation) ==
    LET done == DoBasicLoop(cs, ops, GetNames(cs, name, status), 1, status, operation)
    IN  IF done.raised # "None"
           THEN [raised |-> done.raised, conflicts |-> cs, operations |-> ops]
           ELSE done

DoBasic(cs, ops, name, status, operation) ==
    DoBasicLoop(cs, ops, GetNames(cs, name, status), 1, status, operation)

\* faulty variant: accepts a conflict of any status
AddDimension_AnyStatus(cs, ops, name) ==
    DoBasic(cs, ops, name, {"new", "changed", "missing"}, "add")

AddDimension(cs, ops, name) == DoBasic(cs, ops, name, {"new", "changed"}, "add")

\* faulty variant: accepts a conflict of any status
RemoveDimension_AnyStatus(cs, ops, name) ==
    DoBasic(cs, ops, name, {"new", "changed", "missing"}, "remove")

RemoveDimension(cs, ops, name) == DoBasic(cs, ops, name, {"missing"}, "remove")

\* the loop runs once per expanded name, but looks up `arg` every time
RECURSIVE ResetLoop(_, _, _, _, _, _)
ResetLoop(cs, ops, names, i, arg, status) ==
    IF i > Len(names) THEN [raised |-> "None", conflicts |-> cs, operations |-> ops]
    ELSE LET marked == MarkAs(cs, arg, status, FALSE)
         IN  IF marked.raised # "None"
                THEN [raised |-> marked.raised, conflicts |-> cs, operations |-> ops]
                ELSE LET removed == RemoveFromOperations(marked.conflicts, ops,
                                                         marked.conflict)
                     IN  ResetLoop(removed.conflicts, removed.operations,
                                   names, i + 1, arg, status)

ResetDimension(cs, ops, arg) ==
    LET status == {"missing", "new", "changed"}
    IN  ResetLoop(cs, ops, GetNames(cs, arg, status), 1, arg, status)

\* faulty variant: marks the old conflict as soon as it is found, before the
\* new one is looked up
RenameDimension_MarkBeforeLookup(cs, ops, args) ==
    LET old == args[1]
        new == args[2]
        old_found == AssertHasStatus(cs, old, {"missing"})
        new_found == AssertHasStatus(cs, new, {"new"})
    IN  IF old_found.raised # "None"
           THEN [raised |-> old_found.raised, conflicts |-> cs, operations |-> ops]
        ELSE LET old_conflict == old_found.conflicts[old_found.index]
                 old_marked == [cs EXCEPT ![old_conflict].is_solved = TRUE]
             IN  IF new_found.raised # "None"
                    THEN [raised |-> new_found.raised, conflicts |-> old_marked,
                          operations |-> ops]
                    ELSE LET new_conflict == new_found.conflicts[new_found.index]
                         IN  [raised |-> "None",
                              conflicts |-> [old_marked EXCEPT
                                                ![new_conflict].is_solved = TRUE],
                              operations |-> PutOperation(ops, "rename",
                                                 <<old_conflict, new_conflict>>)]

\* 'missing' and 'new' are passed as strings, so `c.status in status` is a
\* substring test; no status is a substring of another, so it selects the
\* conflicts of exactly that status
RenameDimension(cs, ops, args) ==
    LET old == args[1]
        new == args[2]
        old_found == AssertHasStatus(cs, old, {"missing"})
        new_found == AssertHasStatus(cs, new, {"new"})
    IN  IF old_found.raised # "None"
           THEN [raised |-> old_found.raised, conflicts |-> cs, operations |-> ops]
        ELSE IF new_found.raised # "None"
           THEN [raised |-> new_found.raised, conflicts |-> cs, operations |-> ops]
        ELSE LET old_conflict == old_found.conflicts[old_found.index]
                 new_conflict == new_found.conflicts[new_found.index]
             IN  [raised |-> "None",
                  conflicts |-> [cs EXCEPT ![old_conflict].is_solved = TRUE,
                                           ![new_conflict].is_solved = TRUE],
                  operations |-> PutOperation(ops, "rename",
                                              <<old_conflict, new_conflict>>)]

\* the name is recorded in the child's configuration unless it is the
\* experiment's own
ChangeExperimentName(experiment, conflicting, arg) ==
    IF arg # experiment.name
       THEN [conflicting EXCEPT !.name = arg]
       ELSE conflicting

\* Python's None, what a function without a return statement returns
None == [type |-> "NoneType"]

\* the adaptor functions have no body yet: each returns None
AddAdaptor(cs, conflict) == IF cs[conflict].status = "changed" THEN None ELSE None

RenameAdaptor(cs, conflict) == None

RemoveAdaptor(cs, conflict) == None

operations_mapping(cs, operation, conflict) ==
    CASE operation = "add" -> AddAdaptor(cs, conflict)
      [] operation = "rename" -> RenameAdaptor(cs, conflict)
      [] operation = "remove" -> RemoveAdaptor(cs, conflict)

\* the local list `adaptors` when the loops are over
RECURSIVE AdaptorsLoop(_, _, _, _)
AdaptorsLoop(cs, ops, keys, i) ==
    IF i > Len(keys) THEN <<>>
    ELSE [k \in DOMAIN ops[keys[i]] |->
             operations_mapping(cs, keys[i], ops[keys[i]][k])]
         \o AdaptorsLoop(cs, ops, keys, i + 1)

\* the function ends after the loops, without a return statement: the list
\* it built is dropped and the caller gets None
CreateAdaptors(cs, ops) ==
    [adaptors |-> AdaptorsLoop(cs, ops, OperationKeys(ops), 1),
     returned |-> None]

----------------------------------------------------------------------------
(* Construction: the instructions carried by the child's arguments *)

\* keyword in arg
Contains(s, sub) ==
    \E i \in 1..(Len(s) - Len(sub) + 1) : SubSeq(s, i, i + Len(sub) - 1) = sub

\* arg.replace(old, new): every occurrence, left to right, without overlap
RECURSIVE ReplaceFrom(_, _, _, _)
ReplaceFrom(s, old, new, i) ==
    IF i > Len(s) THEN <<>>
    ELSE IF i + Len(old) - 1 <= Len(s) /\ SubSeq(s, i, i + Len(old) - 1) = old
       THEN new \o ReplaceFrom(s, old, new, i + Len(old))
    ELSE << s[i] >> \o ReplaceFrom(s, old, new, i + 1)

Replace(s, old, new) == ReplaceFrom(s, old, new, 1)

\* list.index(value): the first position of value, 0 standing for ValueError
ListIndex(s, value) ==
    IF value \in Range(s)
       THEN CHOOSE i \in DOMAIN s : s[i] = value /\ \A j \in 1..(i - 1) : s[j] # value
       ELSE 0

\* the character class [a-zA-Z_] (the arguments of the model are lower case)
Letters ==
    {"a", "b", "c", "d", "e", "f", "g", "h", "i", "j", "k", "l", "m", "n",
     "o", "p", "q", "r", "s", "t", "u", "v", "w", "x", "y", "z", "_"}

\* the last position of the run of characters of `chars` that starts at i
RECURSIVE SpanEnd(_, _, _)
SpanEnd(s, i, chars) ==
    IF i + 1 <= Len(s) /\ s[i + 1] \in chars THEN SpanEnd(s, i + 1, chars) ELSE i

\* self.cl_keywords_re[keyword].findall(s): the groups of the successive
\* matches.  A match starts at the start of a run of letters and needs the
\* whole run (what follows the group starts with '~', never a letter):
\*   '~+'  ([a-zA-Z_]+)~+              letters, then one or more '~'
\*   '~-'  ([a-zA-Z_]+)~-              letters, then '~-'
\*   '~>'  ([a-zA-Z_]+)~>([a-zA-Z_]+)  letters, '~>', letters: a pair
RECURSIVE FindallFrom(_, _, _)
FindallFrom(s, keyword, i) ==
    IF i > Len(s) THEN <<>>
    ELSE IF s[i] \notin Letters THEN FindallFrom(s, keyword, i + 1)
    ELSE LET e == SpanEnd(s, i, Letters)
             at(k, ch) == k <= Len(s) /\ s[k] = ch
         IN  IF keyword = KwAdd /\ at(e + 1, "~")
                THEN << SubSeq(s, i, e) >>
                     \o FindallFrom(s, keyword, SpanEnd(s, e + 1, {"~"}) + 1)
             ELSE IF keyword = KwRemove /\ at(e + 1, "~") /\ at(e + 2, "-")
                THEN << SubSeq(s, i, e) >> \o FindallFrom(s, keyword, e + 3)
             ELSE IF /\ keyword = KwRename /\ at(e + 1, "~") /\ at(e + 2, ">")
                     /\ e + 3 <= Len(s) /\ s[e + 3] \in Letters
                THEN << <<SubSeq(s, i, e), SubSeq(s, e + 3, SpanEnd(s, e + 3, Letters))>> >>
                     \o FindallFrom(s, keyword, SpanEnd(s, e + 3, Letters) + 1)
             ELSE FindallFrom(s, keyword, e + 1)

Findall(s, keyword) == FindallFrom(s, keyword, 1)

\* the keys of self.commandline_keywords in the order the loops visit them
CommandlineKeywords == <<KwAdd, KwRemove, KwRename>>

\* the inner loop of _interpret_commandline for one argument: `arg` stays
\* the argument as it was read, whatever was written into the list since
RECURSIVE InterpretKeywords(_, _, _, _)
InterpretKeywords(args, buffers, arg, k) ==
    IF k > Len(CommandlineKeywords)
       THEN [raised |-> "None", args |-> args, buffers |-> buffers]
    ELSE LET keyword == CommandlineKeywords[k]
         IN  IF Contains(arg, keyword)
                THEN LET recorded == [buffers EXCEPT ![keyword] = Append(@, arg)]
                         index == ListIndex(args, arg)
                     IN  IF index = 0
                            THEN [raised |-> "ValueError", args |-> args,
                                  buffers |-> recorded]
                            ELSE InterpretKeywords(
                                     [args EXCEPT ![index] = Replace(arg, keyword, <<"~">>)],
                                     recorded, arg, k + 1)
                ELSE InterpretKeywords(args, buffers, arg, k + 1)

RECURSIVE InterpretLoop(_, _, _)
InterpretLoop(args, buffers, i) ==
    IF i > Len(args) THEN [raised |-> "None", args |-> args, buffers |-> buffers]
    ELSE LET done == InterpretKeywords(args, buffers, args[i], 1)
         IN  IF done.raised # "None" THEN done
             ELSE InterpretLoop(done.args, done.buffers, i + 1)

InterpretCommandline(args, buffers) == InterpretLoop(args, buffers, 1)

\* the dimension the space builder makes of an argument: the letters after
\* '--' name it, what follows them declares it
ArgDimension(arg) ==
    LET e == SpanEnd(arg, 3, Letters)
    IN  [name |-> <<"/">> \o SubSeq(arg, 3, e), decl |-> SubSeq(arg, e + 1, Len(arg))]

\* a space maps names to dimensions: a name met again keeps its place and
\* takes the later declaration
RECURSIVE BuildFromLoop(_, _, _)
BuildFromLoop(args, i, space) ==
    IF i > Len(args) THEN space
    ELSE LET dim == ArgDimension(args[i])
             same == {k \in DOMAIN space : space[k].name = dim.name}
         IN  BuildFromLoop(args, i + 1,
                           IF same = {} THEN Append(space, dim)
                           ELSE [k \in DOMAIN space |->
                                    IF k \in same THEN dim ELSE space[k]])

build_from(args) == BuildFromLoop(args, 1, <<>>)

\* faulty variant: '~+' and '~-' are bound to each other's function
ApplyInstruction_Swapped(cs, ops, keyword, value) ==
    IF Len(value) # 1
       THEN [raised |-> "TypeError", conflicts |-> cs, operations |-> ops]
    ELSE IF keyword = KwAdd THEN RemoveDimension(cs, ops, value[1])
    ELSE IF keyword = KwRemove THEN AddDimension(cs, ops, value[1])
    ELSE RenameDimension(cs, ops, value[1])

\* self.cl_keywords_functions[keyword](*value): the call needs exactly one
\* positional argument, so a findall result of any other length is a
\* TypeError
ApplyInstruction(cs, ops, keyword, value) ==
    IF Len(value) # 1
       THEN [raised |-> "TypeError", conflicts |-> cs, operations |-> ops]
    ELSE IF keyword = KwAdd THEN AddDimension(cs, ops, value[1])
    ELSE IF keyword = KwRemove THEN RemoveDimension(cs, ops, value[1])
    ELSE RenameDimension(cs, ops, value[1])

\* the (keyword, dimension) pairs in the order the two loops of
\* _solve_commandline_conflicts visit them
RECURSIVE Instructions(_, _)
Instructions(buffers, k) ==
    IF k > Len(CommandlineKeywords) THEN <<>>
    ELSE [i \in DOMAIN buffers[CommandlineKeywords[k]] |->
             [keyword |-> CommandlineKeywords[k],
              dimension |-> buffers[CommandlineKeywords[k]][i]]]
         \o Instructions(buffers, k + 1)

RECURSIVE SolveLoop(_, _, _, _)
SolveLoop(cs, ops, instructions, i) ==
    IF i > Len(instructions)
       THEN [raised |-> "None", conflicts |-> cs, operations |-> ops]
    ELSE LET keyword == instructions[i].keyword
             value == Findall(instructions[i].dimension, keyword)
             done == ApplyInstruction(cs, ops, keyword, value)
         IN  IF done.raised # "None" THEN done
             ELSE SolveLoop(done.conflicts, done.operations, instructions, i + 1)

SolveCommandlineConflicts(cs, ops, buffers) ==
    SolveLoop(cs, ops, Instructions(buffers, 1), 1)

----------------------------------------------------------------------------
(* Inputs of the calls *)

Join(a, b) == a \o <<" ">> \o b

\* the names of the dimensions, without the leading '/', and a name no
\* dimension has
Literals == {Tail(n) : n \in DimNames} \cup {<<"z">>}

Keywords == DOMAIN special_keywords

Wildcards == {<<"m", "*">>, <<"*">>}

\* selector lists of two selectors: two literals, a keyword twice, two
\* keywords, a literal and a keyword
SelectorPairs ==
    LET a == Tail(NamePool[1])
        b == Tail(NamePool[2])
    IN  {Join(a, b), Join(b, a), Join(KwNew, KwNew), Join(KwNew, KwMissing),
         Join(KwMissing, KwNew), Join(a, KwNew), Join(KwNew, a)}

Selectors == Literals \cup Keywords \cup Wildcards \cup SelectorPairs

RenameArgs == {<<old, new>> : old, new \in Literals \ {<<"z">>}}

----------------------------------------------------------------------------
(* The state machine *)

EmptyOperations == [k \in {} |-> <<>>]

\* no API call is in flight: the calls of Spec run one after the other
NoCalls == [t \in {} |-> <<>>]

\* the experiment's name, and the names change_experiment_name is given
ExperimentName == "exp"

BranchNames == {ExperimentName, "branch"}

\* the raw argument a dimension is built from: --name=declaration
Digits == <<"0", "1", "2", "3", "4", "5", "6", "7", "8", "9">>

ArgOf(dim) == <<"-", "-">> \o Tail(dim.name) \o <<"=", Digits[dim.decl + 1]>>

ArgsOf(space) == [i \in DOMAIN space |-> ArgOf(space[i])]

\* self.commandline_keywords when no argument carried an instruction
NoInstructions == (KwAdd :> <<>>) @@ (KwRemove :> <<>>) @@ (KwRename :> <<>>)

\* what __init__ leaves beside the conflicts when the child's arguments
\* carry no instruction
Plain ==
    /\ experiment_config = [name |-> ExperimentName,
                            user_args |-> ArgsOf(experiment_space)]
    /\ conflicting_config = [name |-> ExperimentName,
                             user_args |-> ArgsOf(conflicting_space)]
    /\ commandline_keywords = NoInstructions
    /\ operations = EmptyOperations
    /\ returned = None

\* The builder after construction.  The resolution API never reads a
\* declaration: what matters is whether the child kept the parent's or not.
\* So the parent declares every dimension with declaration 1 and the child
\* with 1 or with the last of the other declarations; SpecConstruct varies
\* both over all of them.
Init ==
    /\ experiment_space \in Spaces({1})
    /\ conflicting_space \in Spaces({1, MaxDecl})
    /\ conflicts = FindConflicts(experiment_space, conflicting_space)
    /\ Plain
    /\ last = [op |-> "init", raised |-> "None"]
    /\ calls = NoCalls
    /\ overlapped = FALSE

add_dimension ==
    \E name \in Selectors :
        \E result \in {AddDimension(conflicts, operations, name)} :
            /\ conflicts' = result.conflicts
            /\ operations' = result.operations
            /\ last' = [op |-> "add", raised |-> result.raised]
            /\ returned' = None
            /\ UNCHANGED fixed

remove_dimension ==
    \E name \in Selectors :
        \E result \in {RemoveDimension(conflicts, operations, name)} :
            /\ conflicts' = result.conflicts
            /\ operations' = result.operations
            /\ last' = [op |-> "remove", raised |-> result.raised]
            /\ returned' = None
            /\ UNCHANGED fixed

reset_dimension ==
    \E arg \in Selectors :
        \E result \in {ResetDimension(conflicts, operations, arg)} :
            /\ conflicts' = result.conflicts
            /\ operations' = result.operations
            /\ last' = [op |-> "reset", raised |-> result.raised]
            /\ returned' = None
            /\ UNCHANGED fixed

rename_dimension ==
    \E args \in RenameArgs :
        \E result \in {RenameDimension(conflicts, operations, args)} :
            /\ conflicts' = result.conflicts
            /\ operations' = result.operations
            /\ last' = [op |-> "rename", raised |-> result.raised]
            /\ returned' = None
            /\ UNCHANGED fixed

Next ==
    \/ add_dimension
    \/ remove_dimension
    \/ reset_dimension
    \/ rename_dimension

Spec == Init /\ [][Next]_vars

----------------------------------------------------------------------------
(* The whole API: the four resolution calls, change_experiment_name and    *)
(* create_adaptors.  The two added calls read or write no conflict, so the *)
(* builders of this specification are those of Init whose spaces leave the *)
(* second name of the pool out: every status still occurs, alone and       *)
(* beside each other one. *)

InitAll ==
    /\ Init
    /\ ~SpaceHasName(experiment_space, NamePool[2])
    /\ ~SpaceHasName(conflicting_space, NamePool[2])

change_experiment_name ==
    \E arg \in BranchNames :
        /\ conflicting_config' =
               ChangeExperimentName(experiment_config, conflicting_config, arg)
        /\ returned' = None
        /\ last' = [op |-> "change_experiment_name", raised |-> "None"]
        /\ UNCHANGED <<experiment_config, commandline_keywords, experiment_space,
                       conflicting_space, conflicts, operations, calls, overlapped>>

create_adaptors ==
    /\ returned' = CreateAdaptors(conflicts, operations).returned
    /\ last' = [op |-> "create_adaptors", raised |-> "None"]
    /\ UNCHANGED <<conflicts, operations>>
    /\ UNCHANGED fixed

NextAll ==
    \/ Next
    \/ change_experiment_name
    \/ create_adaptors

SpecAll == InitAll /\ [][NextAll]_vars

----------------------------------------------------------------------------
(* Construction: the spaces are built, then the conflicts are found *)

InitConstruct ==
    /\ experiment_space \in Spaces(Decls)
    /\ conflicting_space \in Spaces(Decls)
    /\ conflicts = <<>>
    /\ Plain
    /\ last = [op |-> "build_spaces", raised |-> "None"]
    /\ calls = NoCalls
    /\ overlapped = FALSE

find_conflicts ==
    /\ last.op = "build_spaces"
    /\ conflicts' = conflicts \o FindConflicts(experiment_space, conflicting_space)
    /\ last' = [op |-> "find_conflicts", raised |-> "None"]
    /\ UNCHANGED <<experiment_config, conflicting_config, commandline_keywords,
                   experiment_space, conflicting_space, operations, returned,
                   calls, overlapped>>

NextConstruct == find_conflicts

SpecConstruct == InitConstruct /\ [][NextConstruct]_vars

----------------------------------------------------------------------------
(* Construction from the raw arguments: the whole pipeline of __init__,    *)
(* for configurations without a 'branch' key.  An exception leaves         *)
(* __init__, so no later step runs. *)

\* longest argument list of the child
MaxArgs == 2

\* --name=declaration, --name~+=declaration, --name~-, --old~>new, and an
\* argument with two operators
Arg(name, operator, rest) == <<"-", "-">> \o name \o operator \o rest

CandidateArgs ==
    LET a == Tail(NamePool[1])
        x == Tail(NamePool[3])
    IN  {Arg(x, <<"=">>, <<"1">>), Arg(x, <<"=">>, <<"2">>),
         Arg(a, KwAdd, <<"=", "1">>), Arg(x, KwAdd, <<"=", "2">>),
         Arg(a, KwRemove, <<>>), Arg(x, KwRename, a),
         Arg(a, KwAdd, KwRemove)}

CandidateArgLists == UNION {[1..n -> CandidateArgs] : n \in 0..MaxArgs}

InitCommandline ==
    /\ experiment_config \in
           {[name |-> ExperimentName, user_args |-> ArgsOf(space)] :
                space \in Spaces({1})}
    /\ conflicting_config \in
           {[name |-> ExperimentName, user_args |-> args] : args \in CandidateArgLists}
    /\ commandline_keywords = NoInstructions
    /\ experiment_space = <<>>
    /\ conflicting_space = <<>>
    /\ conflicts = <<>>
    /\ operations = EmptyOperations
    /\ returned = None
    /\ last = [op |-> "__init__", raised |-> "None"]
    /\ calls = NoCalls
    /\ overlapped = FALSE

interpret_commandline ==
    /\ last.op = "__init__"
    /\ \E done \in {InterpretCommandline(conflicting_config.user_args,
                                         commandline_keywords)} :
          /\ conflicting_config' = [conflicting_config EXCEPT !.user_args = done.args]
          /\ commandline_keywords' = done.buffers
          /\ last' = [op |-> "interpret_commandline", raised |-> done.raised]
    /\ UNCHANGED <<experiment_config, experiment_space, conflicting_space, conflicts,
                   operations, returned, calls, overlapped>>

build_spaces ==
    /\ last = [op |-> "interpret_commandline", raised |-> "None"]
    /\ experiment_space' = build_from(experiment_config.user_args)
    /\ conflicting_space' = build_from(conflicting_config.user_args)
    /\ last' = [op |-> "build_spaces", raised |-> "None"]
    /\ UNCHANGED <<experiment_config, conflicting_config, commandline_keywords,
                   conflicts, operations, returned, calls, overlapped>>

solve_commandline_conflicts ==
    /\ last.op = "find_conflicts"
    /\ \E done \in {SolveCommandlineConflicts(conflicts, operations,
                                              commandline_keywords)} :
          /\ conflicts' = done.conflicts
          /\ operations' = done.operations
          /\ last' = [op |-> "solve_commandline_conflicts", raised |-> done.raised]
    /\ UNCHANGED returned
    /\ UNCHANGED fixed

NextCommandline ==
    \/ interpret_commandline
    \/ build_spaces
    \/ find_conflicts
    \/ solve_commandline_conflicts

SpecCommandline == InitCommandline /\ [][NextCommandline]_vars

----------------------------------------------------------------------------
(* Two calls on one builder at once: add_dimension(x) and                  *)
(* reset_dimension(x), x a plain name, each in its own thread.  The        *)
(* builder has no lock, so the threads interleave between the statements   *)
(* of the calls: the write of is_solved (_mark_as) and the update of the   *)
(* ledger (_put_operation, _remove_from_operations) are separate steps.    *)
(* `overlapped` records that a call took a step while the other was        *)
(* between its two steps. *)

Threads == {"add", "reset"}

Other(t) == IF t = "add" THEN "reset" ELSE "add"

StartCalls(x) ==
    [t \in Threads |-> [pc |-> "mark", arg |-> x, conflict |-> 0]]

InitRace ==
    /\ experiment_space \in Spaces({1})
    /\ conflicting_space \in Spaces({1, MaxDecl})
    /\ conflicts = FindConflicts(experiment_space, conflicting_space)
    /\ Plain
    /\ last = [op |-> "init", raised |-> "None"]
    /\ calls \in {StartCalls(x) : x \in Literals}
    /\ overlapped = FALSE

\* what every step of thread t does to the bookkeeping of the threads
Step(t, pc, conflict) ==
    /\ calls' = [calls EXCEPT ![t].pc = pc, ![t].conflict = conflict]
    /\ overlapped' = (overlapped \/ calls[Other(t)].pc = "update")
    /\ UNCHANGED <<experiment_config, conflicting_config, commandline_keywords,
                   experiment_space, conflicting_space>>

\* conflict = self._mark_as_solved(_name, status), or the lookup raises
add_mark_as_solved ==
    /\ calls["add"].pc = "mark"
    /\ \E marked \in {MarkAsSolved(conflicts, calls["add"].arg, {"new", "changed"})} :
          /\ conflicts' = marked.conflicts
          /\ IF marked.raised = "None"
                THEN Step("add", "update", marked.conflict) /\ UNCHANGED <<last, returned>>
                ELSE /\ Step("add", "done", 0)
                     /\ last' = [op |-> "add", raised |-> marked.raised]
                     /\ returned' = None
    /\ UNCHANGED operations

\* self._put_operation(operation, conflict), then the call returns
add_put_operation ==
    /\ calls["add"].pc = "update"
    /\ operations' = PutOperation(operations, "add", calls["add"].conflict)
    /\ Step("add", "done", calls["add"].conflict)
    /\ last' = [op |-> "add", raised |-> "None"]
    /\ returned' = None
    /\ UNCHANGED conflicts

\* conflict = self._mark_as(arg, status, False), or the lookup raises
reset_mark_as ==
    /\ calls["reset"].pc = "mark"
    /\ \E marked \in {MarkAs(conflicts, calls["reset"].arg,
                               {"missing", "new", "changed"}, FALSE)} :
          /\ conflicts' = marked.conflicts
          /\ IF marked.raised = "None"
                THEN Step("reset", "update", marked.conflict)
                     /\ UNCHANGED <<last, returned>>
                ELSE /\ Step("reset", "done", 0)
                     /\ last' = [op |-> "reset", raised |-> marked.raised]
                     /\ returned' = None
    /\ UNCHANGED operations

\* self._remove_from_operations(conflict), then the call returns
reset_remove_from_operations ==
    /\ calls["reset"].pc = "update"
    /\ \E removed \in {RemoveFromOperations(conflicts, operations,
                                            calls["reset"].conflict)} :
          /\ conflicts' = removed.conflicts
          /\ operations' = removed.operations
    /\ Step("reset", "done", calls["reset"].conflict)
    /\ last' = [op |-> "reset", raised |-> "None"]
    /\ returned' = None

NextRace ==
    \/ add_mark_as_solved
    \/ add_put_operation
    \/ reset_mark_as
    \/ reset_remove_from_operations

SpecRace == InitRace /\ [][NextRace]_vars

----------------------------------------------------------------------------
(* Vocabulary of the properties *)

\* the conflicts on the dimension called `name` (given without the '/')
ConflictsNamed(cs, name) ==
    {i \in DOMAIN cs : cs[i].dimension.name = <<"/">> \o name}

HasStatus(cs, name, statuses) ==
    \E i \in ConflictsNamed(cs, name) : cs[i].status \in statuses

\* the payloads queued under `kind`
Queued(ops, kind) == IF kind \in DOMAIN ops THEN ops[kind] ELSE <<>>

\* some ledger entry references conflict i
Referenced(ops, i) ==
    \/ i \in Range(Queued(ops, "add"))
    \/ i \in Range(Queued(ops, "remove"))
    \/ \E pair \in Range(Queued(ops, "rename")) : i \in Range(pair)

DimensionOf(space, n) == space[CHOOSE i \in DOMAIN space : space[i].name = n]

StatusesPresent == {conflicts[i].status : i \in DOMAIN conflicts}

----------------------------------------------------------------------------
(* C1: once _find_conflicts has run, every name that is only in the child  *)
(* space has exactly one conflict, of status 'new', carrying the child's   *)
(* dimension; every name only in the parent space exactly one 'missing'    *)
(* conflict carrying the parent's dimension; every name in both with       *)
(* unequal dimensions exactly one 'changed' conflict carrying the child's  *)
(* dimension; a name with the same dimension in both, or in neither, has   *)
(* no conflict; no conflict is on any other name; identical spaces give no *)
(* conflict at all.  (SpecConstruct) *)
C1_OneConflictPerDiscrepancy ==
    last.op = "find_conflicts" =>
        /\ \A n \in DimNames :
              LET inParent == SpaceHasName(experiment_space, n)
                  inChild == SpaceHasName(conflicting_space, n)
                  on == {i \in DOMAIN conflicts : conflicts[i].dimension.name = n}
                  only(status, dim) ==
                      \E i \in on : /\ on = {i}
                                    /\ conflicts[i].status = status
                                    /\ conflicts[i].dimension = dim
              IN  CASE inChild /\ ~inParent ->
                           only("new", DimensionOf(conflicting_space, n))
                    [] inParent /\ ~inChild ->
                           only("missing", DimensionOf(experiment_space, n))
                    [] inParent /\ inChild ->
                           IF DimensionOf(experiment_space, n).decl
                                  # DimensionOf(conflicting_space, n).decl
                              THEN only("changed", DimensionOf(conflicting_space, n))
                              ELSE on = {}
                    [] OTHER -> on = {}
        /\ \A i \in DOMAIN conflicts : conflicts[i].dimension.name \in DimNames
        /\ experiment_space = conflicting_space => conflicts = <<>>

\* all three kinds of discrepancy found at once
C1_Witness ==
    /\ last.op = "find_conflicts"
    /\ StatusesPresent = {"new", "changed", "missing"}

----------------------------------------------------------------------------
(* C2: in every state the resolution calls reach, the two conflicts of     *)
(* every rename pair in the ledger have the same is_solved flag. *)
C2_RenamePairSolvedTogether ==
    \A pair \in Range(Queued(operations, "rename")) :
        conflicts[pair[1]].is_solved = conflicts[pair[2]].is_solved

----------------------------------------------------------------------------
(* C3: from every reachable state, a rename_dimension((old, new)) that     *)
(* returns normally leaves both conflicts solved and the pair in the       *)
(* rename ledger, and a reset_dimension(old) right after it returns        *)
(* normally and leaves both conflicts unsolved and the pair out of the     *)
(* rename ledger. *)
C3_RenameThenReset ==
    \A args \in RenameArgs :
        LET renamed == RenameDimension(conflicts, operations, args)
            reset == ResetDimension(renamed.conflicts, renamed.operations, args[1])
            old == CHOOSE i \in ConflictsNamed(conflicts, args[1]) : TRUE
            new == CHOOSE i \in ConflictsNamed(conflicts, args[2]) : TRUE
        IN  renamed.raised = "None" =>
                /\ renamed.conflicts[old].is_solved
                /\ renamed.conflicts[new].is_solved
                /\ <<old, new>> \in Range(Queued(renamed.operations, "rename"))
                /\ reset.raised = "None"
                /\ ~reset.conflicts[old].is_solved
                /\ ~reset.conflicts[new].is_solved
                /\ <<old, new>> \notin Range(Queued(reset.operations, "rename"))

----------------------------------------------------------------------------
(* C4: from every reachable state and for every literal name x, an         *)
(* add_dimension(x) that returns normally followed by reset_dimension(x)   *)
(* leaves x's conflict unsolved and referenced by no ledger entry. *)
C4_AddThenReset ==
    \A x \in Literals :
        LET added == AddDimension(conflicts, operations, x)
            reset == ResetDimension(added.conflicts, added.operations, x)
        IN  added.raised = "None" =>
                \A i \in ConflictsNamed(conflicts, x) :
                    /\ ~reset.conflicts[i].is_solved
                    /\ ~Referenced(reset.operations, i)

----------------------------------------------------------------------------
(* C5: in every reachable state no list of the ledger holds the same       *)
(* payload twice; and an add_dimension call that returned normally, made   *)
(* again with the same selectors, changes nothing: every conflict it names *)
(* is in the add list exactly once. *)
C5_NoDuplicatePayload ==
    /\ \A kind \in DOMAIN operations :
          \A i, j \in DOMAIN operations[kind] :
              i # j => operations[kind][i] # operations[kind][j]
    /\ \A name \in Selectors :
          LET once == AddDimension(conflicts, operations, name)
              twice == AddDimension(once.conflicts, once.operations, name)
              queued == Queued(twice.operations, "add")
          IN  once.raised = "None" =>
                  /\ twice.raised = "None"
                  /\ twice.operations = once.operations
                  /\ \A n \in Range(GetNames(conflicts, name, {"new", "changed"})) :
                        \A c \in ConflictsNamed(conflicts, n) :
                            Cardinality({k \in DOMAIN queued : queued[k] = c}) = 1

\* an add call has returned with two conflicts queued and solved
C5_Witness ==
    /\ last = [op |-> "add", raised |-> "None"]
    /\ Len(Queued(operations, "add")) = 2
    /\ \A c \in Range(Queued(operations, "add")) : conflicts[c].is_solved

----------------------------------------------------------------------------
(* C6: from every reachable state, rename_dimension((old, new)) raises the *)
(* lookup's error (list.index's ValueError, the conflict-not-found error)  *)
(* whenever old has no 'missing' conflict or new has no 'new' conflict,    *)
(* and a rename that raises leaves every is_solved flag and the whole      *)
(* ledger as they were. *)
C6_FailedRenameChangesNothing ==
    \A args \in RenameArgs :
        LET renamed == RenameDimension(conflicts, operations, args)
        IN  /\ (~HasStatus(conflicts, args[1], {"missing"})
                \/ ~HasStatus(conflicts, args[2], {"new"}))
                   => renamed.raised = "ValueError"
            /\ renamed.raised # "None"
                   => /\ renamed.conflicts = conflicts
                      /\ renamed.operations = operations

\* the spec's scenario after the failed call: a 'changed' and a 'missing'
\* conflict, none 'new', nothing solved, nothing queued
C6_Witness ==
    /\ last = [op |-> "rename", raised |-> "ValueError"]
    /\ StatusesPresent = {"changed", "missing"}
    /\ \A i \in DOMAIN conflicts : ~conflicts[i].is_solved
    /\ \A kind \in DOMAIN operations : operations[kind] = <<>>

----------------------------------------------------------------------------
(* C7: from every reachable state and for every literal name, add_dimension *)
(* returns normally exactly when the name has a 'new' or 'changed'          *)
(* conflict, and remove_dimension exactly when it has a 'missing' one;      *)
(* otherwise the call raises the lookup's error and leaves conflicts and    *)
(* ledger as they were; add_dimension leaves the flag of every 'missing'    *)
(* conflict, and remove_dimension the flag of every 'new' or 'changed'      *)
(* conflict, as it was. *)
C7_BasicCallsNeedTheirStatus ==
    \A name \in Literals :
        LET added == AddDimension(conflicts, operations, name)
            removed == RemoveDimension(conflicts, operations, name)
            checks(result, statuses) ==
                /\ result.raised = "None" <=> HasStatus(conflicts, name, statuses)
                /\ result.raised # "None" =>
                       /\ result.raised = "ValueError"
                       /\ result.conflicts = conflicts
                       /\ result.operations = operations
                /\ \A i \in DOMAIN conflicts :
                       conflicts[i].status \notin statuses =>
                           result.conflicts[i].is_solved = conflicts[i].is_solved
        IN  /\ checks(added, {"new", "changed"})
            /\ checks(removed, {"missing"})

\* an add call has just been refused while a 'missing' conflict stands
\* unsolved and nothing is queued for it
C7_Witness ==
    /\ last = [op |-> "add", raised |-> "ValueError"]
    /\ \E i \in DOMAIN conflicts :
          /\ conflicts[i].status = "missing"
          /\ ~conflicts[i].is_solved
          /\ ~Referenced(operations, i)

----------------------------------------------------------------------------
(* C8: from every reachable state, add_dimension("a b") on two distinct    *)
(* literal names that both have a 'new' or 'changed' conflict returns      *)
(* normally, solves both conflicts and queues an add entry for each. *)
C8_EverySelectorContributes ==
    \A a, b \in Literals :
        (/\ a # b
         /\ Join(a, b) \in Selectors
         /\ HasStatus(conflicts, a, {"new", "changed"})
         /\ HasStatus(conflicts, b, {"new", "changed"}))
        => LET added == AddDimension(conflicts, operations, Join(a, b))
           IN  /\ added.raised = "None"
               /\ \A i \in ConflictsNamed(conflicts, a) \cup ConflictsNamed(conflicts, b) :
                     /\ added.conflicts[i].is_solved
                     /\ i \in Range(Queued(added.operations, "add"))

----------------------------------------------------------------------------
(* C9: from every reachable state, reset_dimension with a status keyword   *)
(* or a wildcard returns normally and leaves every conflict the selector   *)
(* expands to unsolved and referenced by no ledger entry; in particular    *)
(* right after add_dimension("~new"). *)
C9_ResetExpandsSelector ==
    /\ \A arg \in Keywords \cup Wildcards :
          LET status == {"missing", "new", "changed"}
              reset == ResetDimension(conflicts, operations, arg)
          IN  /\ reset.raised = "None"
              /\ \A n \in Range(GetNames(conflicts, arg, status)) :
                    \A i \in ConflictsNamed(conflicts, n) :
                        /\ ~reset.conflicts[i].is_solved
                        /\ ~Referenced(reset.operations, i)
    /\ LET added == AddDimension(conflicts, operations, KwNew)
           reset == ResetDimension(added.conflicts, added.operations, KwNew)
       IN  /\ added.raised = "None"
           /\ reset.raised = "None"
           /\ \A i \in DOMAIN conflicts :
                 conflicts[i].status = "new" =>
                     /\ ~reset.conflicts[i].is_solved
                     /\ i \notin Range(Queued(reset.operations, "add"))

----------------------------------------------------------------------------
(* C10: from every reachable state, add_dimension with a wildcard p*       *)
(* returns normally, solves and queues under 'add' every conflict whose    *)
(* name starts with /p and whose status is 'new' or 'changed', and leaves  *)
(* every other conflict's flag and ledger membership, and the other lists  *)
(* of the ledger, as they were. *)
C10_WildcardAdd ==
    \A arg \in Wildcards :
        LET p == SubSeq(arg, 1, Len(arg) - 1)
            added == AddDimension(conflicts, operations, arg)
            under(i) == /\ Len(conflicts[i].dimension.name) >= Len(p) + 1
                        /\ conflicts[i].dimension.name[1] = "/"
                        /\ \A k \in 1..Len(p) : conflicts[i].dimension.name[k + 1] = p[k]
            selected(i) == under(i) /\ conflicts[i].status \in {"new", "changed"}
        IN  /\ added.raised = "None"
            /\ \A i \in DOMAIN conflicts :
                  IF selected(i)
                     THEN /\ added.conflicts[i].is_solved
                          /\ i \in Range(Queued(added.operations, "add"))
                     ELSE /\ added.conflicts[i].is_solved = conflicts[i].is_solved
                          /\ i \in Range(Queued(added.operations, "add"))
                                 <=> i \in Range(Queued(operations, "add"))
            /\ Queued(added.operations, "remove") = Queued(operations, "remove")
            /\ Queued(added.operations, "rename") = Queued(operations, "rename")

\* the spec's scenario after the call: /m.. 'changed' and /m.. 'new' both
\* solved and queued, the conflict outside the prefix untouched
C10_Witness ==
    /\ last = [op |-> "add", raised |-> "None"]
    /\ Len(conflicts) = 3
    /\ \E i, j, k \in DOMAIN conflicts :
          /\ conflicts[i].status = "changed" /\ conflicts[i].dimension.name = NamePool[1]
          /\ conflicts[j].status = "new" /\ conflicts[j].dimension.name = NamePool[2]
          /\ conflicts[k].dimension.name = NamePool[3]
          /\ conflicts[i].is_solved /\ conflicts[j].is_solved /\ ~conflicts[k].is_solved
          /\ Range(Queued(operations, "add")) = {i, j}

----------------------------------------------------------------------------
(* C11: in every reachable state a keyword selector ~new, ~changed or      *)
(* ~missing expands to the names of exactly the conflicts of that status,  *)
(* whatever status set the calling operation passes; add_dimension("~new") *)
(* and remove_dimension("~missing") return normally, solve every conflict  *)
(* of that status and queue it once, and leave the flag and the ledger     *)
(* membership of every other conflict, and the other lists, as they were.  *)
StatusSets == {{"new", "changed"}, {"missing"}, {"missing", "new", "changed"}}

C11_KeywordSelectsItsStatus ==
    /\ \A kw \in Keywords : \A status \in StatusSets :
          Range(GetNames(conflicts, kw, status))
              = {Tail(conflicts[i].dimension.name) :
                     i \in {j \in DOMAIN conflicts :
                                conflicts[j].status = special_keywords[kw]}}
    /\ \A added \in {AddDimension(conflicts, operations, KwNew)} :
       \A queued \in {Queued(added.operations, "add")} :
           /\ added.raised = "None"
           /\ \A i \in DOMAIN conflicts :
                 IF conflicts[i].status = "new"
                    THEN /\ added.conflicts[i].is_solved
                         /\ Cardinality({k \in DOMAIN queued : queued[k] = i}) = 1
                    ELSE /\ added.conflicts[i].is_solved = conflicts[i].is_solved
                         /\ i \in Range(queued) <=> i \in Range(Queued(operations, "add"))
           /\ Queued(added.operations, "remove") = Queued(operations, "remove")
           /\ Queued(added.operations, "rename") = Queued(operations, "rename")
    /\ \A removed \in {RemoveDimension(conflicts, operations, KwMissing)} :
       \A queued \in {Queued(removed.operations, "remove")} :
           /\ removed.raised = "None"
           /\ \A i \in DOMAIN conflicts :
                 IF conflicts[i].status = "missing"
                    THEN /\ removed.conflicts[i].is_solved
                         /\ Cardinality({k \in DOMAIN queued : queued[k] = i}) = 1
                    ELSE /\ removed.conflicts[i].is_solved = conflicts[i].is_solved
                         /\ i \in Range(queued)
                                <=> i \in Range(Queued(operations, "remove"))
           /\ Queued(removed.operations, "add") = Queued(operations, "add")
           /\ Queued(removed.operations, "rename") = Queued(operations, "rename")

\* a remove call has returned with both 'missing' conflicts solved and
\* queued under 'remove', and the 'changed' conflict beside them untouched
C11_Witness ==
    /\ last = [op |-> "remove", raised |-> "None"]
    /\ Len(conflicts) = 3
    /\ \E i, j, k \in DOMAIN conflicts :
          /\ i # j
          /\ conflicts[i].status = "missing" /\ conflicts[j].status = "missing"
          /\ conflicts[k].status = "changed"
          /\ conflicts[i].is_solved /\ conflicts[j].is_solved /\ ~conflicts[k].is_solved
          /\ Range(Queued(operations, "remove")) = {i, j}
          /\ Len(Queued(operations, "remove")) = 2
          /\ Queued(operations, "add") = <<>>

----------------------------------------------------------------------------
(* C15: from every reachable state, an add_dimension or remove_dimension   *)
(* call whose expansion holds a name without a conflict of the required    *)
(* status raises the lookup's error; the conflicts of the names before the *)
(* first such name are solved and queued under the call's kind, and every  *)
(* other conflict keeps its flag and its ledger membership, the other      *)
(* lists of the ledger being left as they were. *)
BasicCalls ==
    {[kind |-> "add", status |-> {"new", "changed"}],
     [kind |-> "remove", status |-> {"missing"}]}

C15_PartialApplication ==
    \A call \in BasicCalls : \A name \in Selectors :
        \A names \in {GetNames(conflicts, name, call.status)} :
            LET offending == {k \in DOMAIN names :
                                 ~HasStatus(conflicts, names[k], call.status)}
            IN  offending # {} =>
                    \A first \in {k \in offending : \A j \in offending : k <= j} :
                    \A done \in {IF call.kind = "add"
                                    THEN AddDimension(conflicts, operations, name)
                                    ELSE RemoveDimension(conflicts, operations, name)} :
                        /\ done.raised = "ValueError"
                        /\ \A i \in DOMAIN conflicts :
                              IF /\ conflicts[i].status \in call.status
                                 /\ \E j \in 1..(first - 1) :
                                       i \in ConflictsNamed(conflicts, names[j])
                                 THEN /\ done.conflicts[i].is_solved
                                      /\ i \in Range(Queued(done.operations, call.kind))
                                 ELSE /\ done.conflicts[i].is_solved
                                             = conflicts[i].is_solved
                                      /\ i \in Range(Queued(done.operations, call.kind))
                                             <=> i \in Range(Queued(operations, call.kind))
                        /\ \A kind \in {"add", "remove", "rename"} \ {call.kind} :
                              Queued(done.operations, kind) = Queued(operations, kind)

\* add_dimension("~new ~missing") on a fresh builder: the call raised, both
\* 'new' conflicts are solved and queued, the 'missing' one it failed on is not
C15_Witness ==
    /\ last = [op |-> "add", raised |-> "ValueError"]
    /\ Len(conflicts) = 3
    /\ \E i, j, k \in DOMAIN conflicts :
          /\ i # j
          /\ conflicts[i].status = "new" /\ conflicts[j].status = "new"
          /\ conflicts[k].status = "missing"
          /\ conflicts[i].is_solved /\ conflicts[j].is_solved /\ ~conflicts[k].is_solved
          /\ Range(Queued(operations, "add")) = {i, j}
          /\ Queued(operations, "remove") = <<>>
          /\ Queued(operations, "rename") = <<>>

----------------------------------------------------------------------------
(* C18: in every state reached by add_dimension, remove_dimension,         *)
(* rename_dimension and reset_dimension calls, every conflict that a       *)
(* ledger entry references (an add payload, a remove payload, either side  *)
(* of a rename pair) is solved. *)
C18_ReferencedAreSolved ==
    \A i \in DOMAIN conflicts :
        Referenced(operations, i) => conflicts[i].is_solved

----------------------------------------------------------------------------
(* C19: in every state reached by add_dimension, remove_dimension,         *)
(* rename_dimension and reset_dimension calls, the calls that raised       *)
(* included, every solved conflict is referenced by at least one ledger    *)
(* entry. *)
C19_SolvedAreReferenced ==
    \A i \in DOMAIN conflicts :
        conflicts[i].is_solved => Referenced(operations, i)

\* a reset call has just raised while a rename pair and an add payload are
\* queued, all their conflicts solved
C19_Witness ==
    /\ last = [op |-> "reset", raised |-> "ValueError"]
    /\ Len(Queued(operations, "rename")) = 1
    /\ Len(Queued(operations, "add")) = 1
    /\ \A i \in DOMAIN conflicts :
          Referenced(operations, i) => conflicts[i].is_solved
    /\ \E i \in DOMAIN conflicts : ~conflicts[i].is_solved

----------------------------------------------------------------------------
(* C20: in every reachable state every add payload is a conflict of status *)
(* 'new' or 'changed', every remove payload a conflict of status           *)
(* 'missing', and every rename payload a pair of a 'missing' conflict and  *)
(* a 'new' conflict, in that order. *)
C20_LedgerMatchesStatuses ==
    /\ \A c \in Range(Queued(operations, "add")) :
          c \in DOMAIN conflicts /\ conflicts[c].status \in {"new", "changed"}
    /\ \A c \in Range(Queued(operations, "remove")) :
          c \in DOMAIN conflicts /\ conflicts[c].status = "missing"
    /\ \A pair \in Range(Queued(operations, "rename")) :
          /\ Len(pair) = 2
          /\ pair[1] \in DOMAIN conflicts /\ conflicts[pair[1]].status = "missing"
          /\ pair[2] \in DOMAIN conflicts /\ conflicts[pair[2]].status = "new"

\* the three lists of the ledger all hold a payload, the add list one
\* 'changed' and one 'new' conflict
C20_Witness ==
    /\ Len(Queued(operations, "rename")) = 1
    /\ Len(Queued(operations, "remove")) = 1
    /\ {conflicts[c].status : c \in Range(Queued(operations, "add"))}
           = {"new", "changed"}

----------------------------------------------------------------------------
(* C13: whenever create_adaptors has returned, what it returned is a       *)
(* sequence with one adaptor for every entry of the ledger: one per add    *)
(* payload, one per remove payload, one per rename pair.  (SpecAll) *)
LedgerEntries ==
    Len(Queued(operations, "add")) + Len(Queued(operations, "remove"))
        + Len(Queued(operations, "rename"))

C13_OneAdaptorPerEntry ==
    last.op = "create_adaptors" =>
        /\ returned.type = "list"
        /\ Len(returned.items) = LedgerEntries

----------------------------------------------------------------------------
(* C14: no call of the API (add_dimension, remove_dimension,               *)
(* rename_dimension, reset_dimension, change_experiment_name,              *)
(* create_adaptors) adds or deletes a conflict or changes the status or    *)
(* the dimension of one: a step changes at most is_solved flags, the       *)
(* ledger, the child's recorded name and the returned value.  (SpecAll) *)
ConflictsFixed ==
    /\ Len(conflicts') = Len(conflicts)
    /\ \A i \in DOMAIN conflicts :
          /\ conflicts'[i].status = conflicts[i].status
          /\ conflicts'[i].dimension = conflicts[i].dimension
    /\ UNCHANGED <<experiment_space, conflicting_space, experiment_config,
                   commandline_keywords>>

C14_ConflictSetFixed == [][ConflictsFixed]_vars

\* the API has been used: a conflict is solved and queued, the other is
\* not, the child has its new name, and create_adaptors has just returned
C14_Witness ==
    /\ last.op = "create_adaptors"
    /\ conflicting_config.name # experiment_config.name
    /\ Len(conflicts) = 2
    /\ \E i, j \in DOMAIN conflicts :
          /\ conflicts[i].is_solved /\ ~conflicts[j].is_solved
          /\ Referenced(operations, i) /\ ~Referenced(operations, j)

----------------------------------------------------------------------------
(* C12: when construction is over and the child's arguments carried one    *)
(* instruction, a ~+ on a name the parent space lacks, construction has    *)
(* not raised, that name has exactly one conflict, of status 'new', which  *)
(* is solved and is the only entry of the ledger, under 'add'; no other    *)
(* conflict is solved; and when the child's other arguments are the        *)
(* parent's arguments, it is the only conflict.  (SpecCommandline) *)
C12_EmbeddedAddApplied ==
    (/\ last.op = "solve_commandline_conflicts"
     /\ Len(commandline_keywords[KwAdd]) = 1
     /\ commandline_keywords[KwRemove] = <<>>
     /\ commandline_keywords[KwRename] = <<>>
     /\ ~SpaceHasName(experiment_space,
                      ArgDimension(commandline_keywords[KwAdd][1]).name))
    => LET arg == commandline_keywords[KwAdd][1]
           name == ArgDimension(arg).name
           rewritten == Replace(arg, KwAdd, <<"~">>)
           others == Range(conflicting_config.user_args) \ {rewritten}
       IN  /\ last.raised = "None"
           /\ \E i \in DOMAIN conflicts :
                 /\ {j \in DOMAIN conflicts : conflicts[j].dimension.name = name} = {i}
                 /\ conflicts[i].status = "new"
                 /\ conflicts[i].is_solved
                 /\ operations = ("add" :> <<i>>)
                 /\ \A j \in DOMAIN conflicts \ {i} : ~conflicts[j].is_solved
           /\ others = Range(experiment_config.user_args) => Len(conflicts) = 1

\* the spec's scenario: parent --x=1, child --x=1 and --ma~+=1; after
\* construction the one conflict, new /ma, is solved and queued under 'add'
C12_Witness ==
    /\ last = [op |-> "solve_commandline_conflicts", raised |-> "None"]
    /\ experiment_config.user_args = << Arg(Tail(NamePool[3]), <<"=">>, <<"1">>) >>
    /\ commandline_keywords[KwAdd] = << Arg(Tail(NamePool[1]), KwAdd, <<"=", "1">>) >>
    /\ conflicting_config.user_args =
           << Arg(Tail(NamePool[3]), <<"=">>, <<"1">>),
              Arg(Tail(NamePool[1]), <<"~">>, <<"=", "1">>) >>
    /\ Len(conflicts) = 1
    /\ conflicts[1].status = "new"
    /\ conflicts[1].dimension.name = NamePool[1]
    /\ conflicts[1].is_solved
    /\ operations = ("add" :> <<1>>)

----------------------------------------------------------------------------
(* C17: at every point of construction no argument of the child is         *)
(* recorded in the instruction buffers of two operators.                   *)
(* (SpecCommandline) *)
C17_AtMostOneBuffer ==
    \A k1, k2 \in DOMAIN commandline_keywords :
        k1 # k2 =>
            Range(commandline_keywords[k1]) \cap Range(commandline_keywords[k2]) = {}

----------------------------------------------------------------------------
(* C16: when add_dimension(x) and reset_dimension(x) have both run on a    *)
(* fresh builder one after the other, in either order, the is_solved flag  *)
(* of x's conflict and its membership of the ledger agree; the witness is  *)
(* the state the interleaved steps reach and no serial order does: both    *)
(* calls over, the conflict unsolved and still queued.  (SpecRace) *)
BothDone == \A t \in Threads : calls[t].pc = "done"

TargetAgrees ==
    \A t \in Threads :
        \A i \in ConflictsNamed(conflicts, calls[t].arg) :
            conflicts[i].is_solved <=> Referenced(operations, i)

C16_SerialOrdersAgree == (BothDone /\ ~overlapped) => TargetAgrees

\* add marked, reset unmarked and found nothing to remove, add queued
C16_Witness ==
    /\ BothDone
    /\ overlapped
    /\ last = [op |-> "add", raised |-> "None"]
    /\ \E i \in ConflictsNamed(conflicts, calls["add"].arg) :
          /\ ~conflicts[i].is_solved
          /\ Queued(operations, "add") = <<i>>

====
